---- MODULE Spec2Model ----
(***************************************************************************)
(* Model of the Portless cash-velocity simulation (simulation.js:          *)
(* round2 and simulate) as called by App.jsx.                              *)
(*                                                                         *)
(* Numbers.  The program computes in IEEE doubles.  Here every real is a   *)
(* fixed-point integer counting millionths (SCALE = 10^6 stands for 1.0);  *)
(* products and quotients are exact and then truncated toward minus        *)
(* infinity to a millionth.  The resolution is 10^4 times finer than the   *)
(* 0.01 grid round2 produces, so "rounded" and "not rounded" values are    *)
(* distinguishable.  All intermediate values stay below 2^31.              *)
(***************************************************************************)
EXTENDS Integers, Sequences, FiniteSets

----------------------------------------------------------------------------
(* Fixed-point arithmetic *)

SCALE == 10^6
KILO == 10^3

Max(a, b) == IF a >= b THEN a ELSE b
Min(a, b) == IF a <= b THEN a ELSE b

\* floor(a * b / SCALE), computed in pieces that stay below 2^31
MulS(a, b) ==
    LET a1 == a \div KILO
        a0 == a % KILO
        b1 == b \div KILO
        b0 == b % KILO
    IN  a1 * b1 + ((a1 * b0 + a0 * b1 + ((a0 * b0) \div KILO)) \div KILO)

RECURSIVE LongDiv(_, _, _)
\* k further base-100 digits of r / b, for 0 <= r < b
LongDiv(r, b, k) ==
    IF k = 0 THEN 0
    ELSE LET t == r * 100
         IN  (t \div b) * 100^(k - 1) + LongDiv(t % b, b, k - 1)

\* floor(a * SCALE / b) for a >= 0, b > 0
DivS(a, b) == (a \div b) * SCALE + LongDiv(a % b, b, 3)

RECURSIVE PowS(_, _)
\* x^k for a natural exponent k
PowS(x, k) == IF k = 0 THEN SCALE ELSE MulS(PowS(x, k - 1), x)

RECURSIVE Root10(_, _, _)
\* the least y in lo..hi with y^10 >= x (bisection; y^10 is monotone in y);
\* the tenth root of 0 is 0 and of 1 is 1
Root10(x, lo, hi) ==
    IF lo >= hi THEN hi
    ELSE LET mid == (lo + hi) \div 2
         IN  IF PowS(mid, 10) >= x THEN Root10(x, lo, mid)
                                   ELSE Root10(x, mid + 1, hi)

\* Math.pow(x, 0.7) for 0 <= x < 1024: the seventh power of the tenth root
Pow07(x) == PowS(Root10(x, 0, 2 * SCALE), 7)

----------------------------------------------------------------------------
(* Program constants *)

EFFICIENCY == 140000
GROWTH_CAP == 350000
TRADITIONAL_CYCLE == 3500000
CYCLE_FLOOR == 750000
BASE_CYCLE == 1000000
BASE_TERMS == 30
TERMS_SLOPE == 4000
DECAY == 960000
\* variant: the loop stops one month early
MONTHS_SHORT == 12 - 1

MONTHS == 12
CENT == SCALE \div 100

----------------------------------------------------------------------------
(* Pure pieces of simulate *)

\* Math.round(n * 100) / 100: to the nearest hundredth, halves upward
round2(n) == ((n + (CENT \div 2)) \div CENT) * CENT

\* variant: the cost share is used in place of the margin
RawExcessOfCostShare(c, r) == MulS(SCALE - c, r - SCALE)

\* variant: the break-even unit is not subtracted from ROAS
RawExcessNoBreakEven(c, r) == MulS(c, r)

RawExcess(c, r) == MulS(c, r - SCALE)

\* variant: the exponent 0.7 is missing
GrowthPerCycleLinear(raw) == Min(MulS(Max(raw, 0), EFFICIENCY), GROWTH_CAP)

\* variant: the 35% ceiling is missing
GrowthPerCycleUncapped(raw) == MulS(Pow07(Max(raw, 0)), EFFICIENCY)

GrowthPerCycle(raw) == Min(MulS(Pow07(Max(raw, 0)), EFFICIENCY), GROWTH_CAP)

\* variant: longer terms lengthen the cycle
PortlessCycleLengthening(n) ==
    Max(CYCLE_FLOOR, BASE_CYCLE + (n - BASE_TERMS) * TERMS_SLOPE)

\* variant: the three-week floor is missing
PortlessCycleNoFloor(n) == BASE_CYCLE - (n - BASE_TERMS) * TERMS_SLOPE

PortlessCycle(n) == Max(CYCLE_FLOOR, BASE_CYCLE - (n - BASE_TERMS) * TERMS_SLOPE)

\* variant: the growth is multiplied by the cycle length
PortlessMonthlyTimesCycle(g, cyc) == MulS(g, cyc)

PortlessMonthly(g, cyc) == DivS(g, cyc)

\* variant: the per-cycle growth is used as the monthly rate
TraditionalMonthlyPerCycle(g, cyc) == g

TraditionalMonthly(g, cyc) == DivS(g, cyc)

\* variant: the decay already bites in the first month
DecayAtOffByOne(month) == PowS(DECAY, month)

DecayAt(month) == PowS(DECAY, month - 1)

\* variant: the accumulator is rounded before it is carried forward
CompoundRounded(idx, rate, dec) == round2(MulS(idx, SCALE + MulS(rate, dec)))

\* variant: the growth term is subtracted
CompoundShrinking(idx, rate, dec) == MulS(idx, SCALE - MulS(rate, dec))

Compound(idx, rate, dec) == MulS(idx, SCALE + MulS(rate, dec))

\* variant: the month is left out of the pushed point
PointWithoutMonth(month, p, t) ==
    [portless |-> round2(p), traditional |-> round2(t)]

Point(month, p, t) ==
    [month |-> month, portless |-> round2(p), traditional |-> round2(t)]

InitialData == << [month |-> 0, portless |-> SCALE, traditional |-> SCALE] >>

\* variant: the ratio is taken from the rounded display values
MultiplierOfRounded(p, t) == DivS(round2(p), round2(t))

\* variant: the operands are swapped
MultiplierSwapped(p, t) == DivS(t, p)

Multiplier(p, t) == DivS(p, t)

----------------------------------------------------------------------------
(* Inputs *)

MaxCm == 10          \* contribution margin in tenths: 0.0 .. 1.0
MaxRoas == 12        \* ROAS in halves: 0.0 .. 6.0
MaxNetTerms == 94    \* net terms in days

CmValues == { k * (SCALE \div 10) : k \in 0..MaxCm }
RoasValues == { k * (SCALE \div 2) : k \in 0..MaxRoas }
NetTermsValues == {0, 30, 45, 60, 90} \cup 91..MaxNetTerms

----------------------------------------------------------------------------
(* One invocation of simulate as a state machine *)

VARIABLES cm, roas, netTermsDays,
          pc,
          rawExcess, growthPerCycle, traditionalCycle, portlessCycle,
          portlessMonthly, traditionalMonthly,
          m, d, pIdx, tIdx, data,
          iterations,
          result,
          prev,
          calls

vars == << cm, roas, netTermsDays, pc, rawExcess, growthPerCycle,
           traditionalCycle, portlessCycle, portlessMonthly, traditionalMonthly,
           m, d, pIdx, tIdx, data, iterations, result, prev, calls >>

NoResult == [data |-> << >>, multiplier |-> 0]

\* no earlier invocation has completed
NoPrev == [cm |-> 0 - 1]

\* no concurrent invocations are in progress
NoCalls == << >>

Init ==
    /\ cm \in CmValues
    /\ roas \in RoasValues
    /\ netTermsDays \in NetTermsValues
    /\ pc = "entry"
    /\ rawExcess = 0
    /\ growthPerCycle = 0
    /\ traditionalCycle = 0
    /\ portlessCycle = 0
    /\ portlessMonthly = 0
    /\ traditionalMonthly = 0
    /\ m = 0
    /\ d = 0
    /\ pIdx = 0
    /\ tIdx = 0
    /\ data = << >>
    /\ iterations = 0
    /\ result = NoResult
    /\ prev = NoPrev
    /\ calls = NoCalls

\* lines 46-89: rate derivation and the loop's initial state
Derive ==
    /\ pc = "entry"
    /\ rawExcess' = RawExcess(cm, roas)
    /\ growthPerCycle' = GrowthPerCycle(rawExcess')
    /\ traditionalCycle' = TRADITIONAL_CYCLE
    /\ portlessCycle' = PortlessCycle(netTermsDays)
    /\ portlessMonthly' = PortlessMonthly(growthPerCycle', portlessCycle')
    /\ traditionalMonthly' = TraditionalMonthly(growthPerCycle', traditionalCycle')
    /\ data' = InitialData
    /\ pIdx' = SCALE
    /\ tIdx' = SCALE
    /\ m' = 1
    /\ pc' = "loop"
    /\ UNCHANGED << cm, roas, netTermsDays, d, iterations, result, prev, calls >>

\* lines 91-102: one iteration of the for loop, m++ included
Iterate ==
    /\ pc = "loop"
    /\ m <= MONTHS
    /\ d' = DecayAt(m)
    /\ pIdx' = Compound(pIdx, portlessMonthly, d')
    /\ tIdx' = Compound(tIdx, traditionalMonthly, d')
    /\ data' = Append(data, Point(m, pIdx', tIdx'))
    /\ m' = m + 1
    /\ iterations' = iterations + 1
    /\ UNCHANGED << cm, roas, netTermsDays, pc, rawExcess, growthPerCycle,
                    traditionalCycle, portlessCycle, portlessMonthly, traditionalMonthly,
                    result, prev, calls >>

\* lines 91, 104-107: the loop condition fails and the result is returned
Return ==
    /\ pc = "loop"
    /\ ~(m <= MONTHS)
    /\ result' = [data |-> data, multiplier |-> Multiplier(pIdx, tIdx)]
    /\ pc' = "done"
    /\ UNCHANGED << cm, roas, netTermsDays, rawExcess, growthPerCycle,
                    traditionalCycle, portlessCycle, portlessMonthly, traditionalMonthly,
                    m, d, pIdx, tIdx, data, iterations, prev, calls >>

Next == Derive \/ Iterate \/ Return

Spec == Init /\ [][Next]_vars

----------------------------------------------------------------------------
(* Properties *)

ONE == 10^6

RECURSIVE UnroundedIndex(_, _)
\* the index after k months compounded at full resolution from the baseline:
\* index(0) = 1, index(k) = index(k-1) * (1 + rate * 0.96^(k-1))
UnroundedIndex(rate, k) ==
    IF k = 0 THEN ONE
    ELSE MulS(UnroundedIndex(rate, k - 1), ONE + MulS(rate, PowS(960000, k - 1)))

Started == pc # "entry"

\* C1: simulate returns after exactly 12 loop iterations; the series has
\* exactly 13 points whose months are 0,1,...,12 in insertion order, and the
\* first point is month 0 with traditional = 1.0 and fast = 1.0.
C1_SeriesShape ==
    /\ Started => /\ Len(data) >= 1
                  /\ data[1] = [month |-> 0, portless |-> ONE, traditional |-> ONE]
                  /\ \A i \in 1..Len(data) : data[i].month = i - 1
    /\ pc = "done" => /\ iterations = 12
                      /\ Len(result.data) = 13
                      /\ \A i \in 1..13 : result.data[i].month = i - 1
                      /\ result.data[1].portless = ONE
                      /\ result.data[1].traditional = ONE

C1_Witness ==
    /\ pc = "done"
    /\ growthPerCycle > 0
    /\ Len(result.data) = 13
    /\ result.data[13].month = 12

\* C2 as stated: every recorded point is round2 of the previously RECORDED
\* (rounded) point times (1 + monthlyRate * 0.96^m).
C2_RoundedCarriedForward ==
    Started =>
        \A i \in 1..(Len(data) - 1) :
            /\ data[i + 1].portless =
                   round2(MulS(data[i].portless,
                               ONE + MulS(portlessMonthly, PowS(960000, i - 1))))
            /\ data[i + 1].traditional =
                   round2(MulS(data[i].traditional,
                               ONE + MulS(traditionalMonthly, PowS(960000, i - 1))))

\* C2 amended: the accumulators are carried forward unrounded; the point
\* recorded for month k is round2 of the unrounded index after k months, and
\* the accumulator that enters month k+1 is that unrounded index itself.
C2_RoundingNotCarried ==
    Started =>
        /\ \A i \in 1..Len(data) :
              /\ data[i].portless = round2(UnroundedIndex(portlessMonthly, i - 1))
              /\ data[i].traditional = round2(UnroundedIndex(traditionalMonthly, i - 1))
        /\ pIdx = UnroundedIndex(portlessMonthly, Len(data) - 1)
        /\ tIdx = UnroundedIndex(traditionalMonthly, Len(data) - 1)

\* an accumulator that is off the 0.01 grid is carried into a later month
C2_Witness ==
    /\ pc = "loop"
    /\ m \in 2..12
    /\ pIdx # round2(pIdx)
    /\ tIdx # round2(tIdx)
    /\ data[Len(data)].portless = round2(pIdx)

\* C3 as stated: multiplier = series[12].fast / series[12].traditional.
C3_MultiplierOfRecorded ==
    pc = "done" =>
        result.multiplier = DivS(result.data[13].portless, result.data[13].traditional)

\* C3 amended: multiplier is the quotient of the unrounded month-12
\* accumulators; the month-12 point records round2 of those accumulators.
C3_MultiplierOfUnrounded ==
    pc = "done" =>
        /\ result.multiplier = DivS(UnroundedIndex(portlessMonthly, 12),
                                    UnroundedIndex(traditionalMonthly, 12))
        /\ result.multiplier = DivS(pIdx, tIdx)
        /\ result.data[13].portless = round2(pIdx)
        /\ result.data[13].traditional = round2(tIdx)

C3_Witness ==
    /\ pc = "done"
    /\ pIdx # result.data[13].portless
    /\ tIdx # result.data[13].traditional
    /\ result.multiplier # DivS(round2(pIdx), round2(tIdx))

\* C4: both recorded sequences are non-decreasing across months, the step
\* from the baseline at month 0 included.
C4_NonDecreasing ==
    Started =>
        \A i \in 1..(Len(data) - 1) :
            /\ data[i + 1].traditional >= data[i].traditional
            /\ data[i + 1].portless >= data[i].portless

\* growth happens, and rounding makes one recorded step flat
C4_Witness ==
    /\ pc = "done"
    /\ data[13].portless > data[1].portless
    /\ data[13].traditional > data[1].traditional
    /\ \E i \in 1..12 : data[i + 1].traditional = data[i].traditional

\* C5: for net terms >= 0 the fast cycle is shorter than the traditional
\* cycle of 3.5 months, and the returned multiplier is >= 1.
C5_FastCycleShorter ==
    /\ Started => portlessCycle < 3500000
    /\ Started => portlessCycle < traditionalCycle
    /\ pc = "done" => result.multiplier >= ONE

C5_Witness ==
    /\ pc = "done"
    /\ netTermsDays = 0
    /\ portlessCycle > ONE
    /\ result.multiplier > ONE

\* C6: with contributionMargin = 0 or roas <= 1 the growth per cycle is 0,
\* all 13 points are 1.0 for both models, and the multiplier is exactly 1.
C6_ZeroGrowth ==
    (Started /\ (cm = 0 \/ roas <= ONE)) =>
        /\ growthPerCycle = 0
        /\ \A i \in 1..Len(data) : data[i].traditional = ONE /\ data[i].portless = ONE
        /\ pc = "done" => /\ Len(result.data) = 13
                          /\ \A i \in 1..13 : /\ result.data[i].traditional = ONE
                                              /\ result.data[i].portless = ONE
                          /\ result.multiplier = ONE

\* a negative excess return has been clamped
C6_Witness ==
    /\ pc = "done"
    /\ cm > 0
    /\ roas < ONE
    /\ rawExcess < 0
    /\ result.multiplier = ONE

\* C7: growthPerCycle = min(0.35, 0.14 * max(cm * (roas - 1), 0)^0.7), so it
\* lies in [0, 0.35]; the cap is active exactly when the uncapped value
\* exceeds 0.35; for cm = 0.80, roas = 6.0 (excess 4.0) it is exactly 0.35.
C7_GrowthPerCycle ==
    Started =>
        LET excess == MulS(cm, roas - ONE)
            uncapped == MulS(Pow07(IF excess > 0 THEN excess ELSE 0), 140000)
        IN  /\ rawExcess = excess
            /\ growthPerCycle >= 0
            /\ growthPerCycle <= 350000
            /\ growthPerCycle = (IF uncapped > 350000 THEN 350000 ELSE uncapped)
            /\ (growthPerCycle # uncapped) <=> (uncapped > 350000)
            /\ (cm = 800000 /\ roas = 6000000) =>
                   (excess = 4000000 /\ uncapped > 350000 /\ growthPerCycle = 350000)
            /\ excess = ONE => growthPerCycle = 140000

C7_Witness ==
    /\ Started
    /\ cm = 800000
    /\ roas = 6000000
    /\ rawExcess = 4000000
    /\ growthPerCycle = 350000

\* C8: the fast cycle is max(0.75, 1.0 - (netTermsDays - 30) * 0.004): never
\* below 0.75, non-increasing in netTermsDays, 1.0 at 30 days, 0.94 at 45,
\* 0.76 at 90, 0.75 from 93 days on; the traditional cycle is always 3.5.
C8_FastCycleLength ==
    Started =>
        LET linear == ONE - (netTermsDays - 30) * 4000
        IN  /\ portlessCycle = (IF linear > 750000 THEN linear ELSE 750000)
            /\ portlessCycle >= 750000
            /\ PortlessCycle(netTermsDays + 1) <= portlessCycle
            /\ PortlessCycle(netTermsDays - 1) >= portlessCycle
            /\ \A n \in NetTermsValues :
                   n >= netTermsDays => PortlessCycle(n) <= portlessCycle
            /\ netTermsDays = 30 => portlessCycle = ONE
            /\ netTermsDays = 45 => portlessCycle = 940000
            /\ netTermsDays = 90 => portlessCycle = 760000
            /\ netTermsDays >= 93 => portlessCycle = 750000
            /\ traditionalCycle = 3500000

C8_Witness ==
    /\ Started
    /\ netTermsDays = 93
    /\ portlessCycle = 750000
    /\ traditionalCycle = 3500000

\* C9: both monthly rates are the same growthPerCycle divided by the model's
\* cycle length (3.5 for traditional), so rate * cycle agrees for the two
\* models (to the resolution of the arithmetic, 5 millionths), both rates
\* are >= 0, and the series are determined by growthPerCycle and the cycle
\* lengths alone.
C9_SharedGrowth ==
    Started =>
        LET fastRate == DivS(growthPerCycle, portlessCycle)
            tradRate == DivS(growthPerCycle, 3500000)
        IN  /\ portlessMonthly = fastRate
            /\ traditionalMonthly = tradRate
            /\ portlessMonthly >= 0
            /\ traditionalMonthly >= 0
            /\ growthPerCycle - MulS(portlessMonthly, portlessCycle) \in 0..5
            /\ growthPerCycle - MulS(traditionalMonthly, 3500000) \in 0..5
            /\ \A i \in 1..Len(data) :
                  /\ data[i].portless = round2(UnroundedIndex(fastRate, i - 1))
                  /\ data[i].traditional = round2(UnroundedIndex(tradRate, i - 1))

C9_Witness ==
    /\ pc = "done"
    /\ growthPerCycle > 0
    /\ traditionalMonthly > 0
    /\ portlessMonthly > traditionalMonthly

\* C10: in the iteration for month m the decay factor is 0.96^(m-1) (1 in
\* month 1), the same factor is applied to both models, and each index is
\* updated as index * (1 + monthlyRate * d).
C10_DecayStep ==
    [][ (pc = "loop" /\ pc' = "loop") =>
            /\ d' = PowS(960000, m - 1)
            /\ (m = 1 => d' = ONE)
            /\ (m = 2 => d' = 960000)
            /\ (m = 3 => d' = 921600)
            /\ pIdx' = MulS(pIdx, ONE + MulS(portlessMonthly, d'))
            /\ tIdx' = MulS(tIdx, ONE + MulS(traditionalMonthly, d')) ]_vars

\* month 2 has just been compounded with d = 0.96
C10_Witness ==
    /\ pc = "loop"
    /\ m = 3
    /\ d = 960000
    /\ growthPerCycle > 0
    /\ pIdx > tIdx

----------------------------------------------------------------------------
(* The caller: App holds cm, roas and netTerms, and invokes simulate again *)
(* whenever one of them is set (useMemo).  The value sets are wider than   *)
(* the sliders' ranges: they add the zero-growth boundary, the smallest    *)
(* positive margin, two nearly equal ROAS values and net terms around the  *)
(* 0.75 floor, which simulate accepts from any caller.                     *)

AppCmValues == {0, 1, 200000, 500000, 1000000}
AppRoasValues == {1000000, 1500000, 1500003, 3000000, 5000000, 6000000}
AppNetTermsValues == {0, 30, 31, 45, 92, 93, 94}

\* what the invocation that has just completed derived and returned
Completed ==
    [cm |-> cm, roas |-> roas, netTermsDays |-> netTermsDays,
     growthPerCycle |-> growthPerCycle, portlessCycle |-> portlessCycle,
     portlessMonthly |-> portlessMonthly,
     traditionalMonthly |-> traditionalMonthly,
     result |-> result]

\* useState(0.50), useState(3.0), useState(45): the first render
InitApp ==
    /\ cm = 500000
    /\ roas = 3000000
    /\ netTermsDays = 45
    /\ pc = "entry"
    /\ rawExcess = 0
    /\ growthPerCycle = 0
    /\ traditionalCycle = 0
    /\ portlessCycle = 0
    /\ portlessMonthly = 0
    /\ traditionalMonthly = 0
    /\ m = 0
    /\ d = 0
    /\ pIdx = 0
    /\ tIdx = 0
    /\ data = << >>
    /\ iterations = 0
    /\ result = NoResult
    /\ prev = NoPrev
    /\ calls = NoCalls

\* a dependency of useMemo changed: simulate(c, r, n) is entered afresh
Reenter(c, r, n) ==
    /\ pc = "done"
    /\ prev' = Completed
    /\ cm' = c
    /\ roas' = r
    /\ netTermsDays' = n
    /\ pc' = "entry"
    /\ rawExcess' = 0
    /\ growthPerCycle' = 0
    /\ traditionalCycle' = 0
    /\ portlessCycle' = 0
    /\ portlessMonthly' = 0
    /\ traditionalMonthly' = 0
    /\ m' = 0
    /\ d' = 0
    /\ pIdx' = 0
    /\ tIdx' = 0
    /\ data' = << >>
    /\ iterations' = 0
    /\ result' = NoResult
    /\ UNCHANGED calls

SetCm == \E v \in AppCmValues : Reenter(v, roas, netTermsDays)

SetRoas == \E v \in AppRoasValues : Reenter(cm, v, netTermsDays)

SetNetTerms == \E v \in AppNetTermsValues : Reenter(cm, roas, v)

NextApp == Derive \/ Iterate \/ Return \/ SetCm \/ SetRoas \/ SetNetTerms

SpecApp == InitApp /\ [][NextApp]_vars

HasPrev == prev # NoPrev

\* C12: for fixed roas >= 1 and fixed netTermsDays, a contribution margin
\* that is not smaller gives a growthPerCycle that is not smaller, and
\* hence fast and traditional monthly rates that are not smaller.
C12_MonotoneInMargin ==
    (Started /\ HasPrev /\ prev.roas = roas /\ prev.netTermsDays = netTermsDays
        /\ roas >= ONE /\ prev.cm <= cm) =>
        /\ prev.growthPerCycle <= growthPerCycle
        /\ prev.portlessMonthly <= portlessMonthly
        /\ prev.traditionalMonthly <= traditionalMonthly

\* the margin was raised and the growth per cycle rose with it
C12_Witness ==
    /\ Started
    /\ HasPrev
    /\ prev.roas = roas
    /\ prev.netTermsDays = netTermsDays
    /\ roas > ONE
    /\ prev.cm > 0
    /\ prev.cm < cm
    /\ prev.growthPerCycle < growthPerCycle
    /\ prev.portlessMonthly < portlessMonthly

IsScenarioA == cm = 500000 /\ roas = 3000000 /\ netTermsDays = 45

IsScenarioC == cm = 200000 /\ roas = 1500000 /\ netTermsDays = 30

\* C13: simulate(0.50, 3.0, 45) derives excessReturn = 1.0, growthPerCycle =
\* 0.14, fastCycleMonths = 0.94, traditionalMonthlyRate = 0.04 and
\* fastMonthlyRate = 0.14/0.94 (0.14894 to five places); at month 12 the
\* fast index exceeds the traditional index and the multiplier exceeds 1.
C13_ScenarioA ==
    (IsScenarioA /\ Started) =>
        /\ rawExcess = ONE
        /\ growthPerCycle = 140000
        /\ portlessCycle = 940000
        /\ traditionalCycle = 3500000
        /\ traditionalMonthly = 40000
        /\ portlessMonthly = DivS(140000, 940000)
        /\ portlessMonthly \in 148930..148940
        /\ pc = "done" => /\ pIdx > tIdx
                          /\ result.data[13].month = 12
                          /\ result.data[13].portless > result.data[13].traditional
                          /\ result.multiplier > ONE

C13_Witness ==
    /\ IsScenarioA
    /\ pc = "done"
    /\ growthPerCycle = 140000
    /\ result.data[13].portless > result.data[13].traditional
    /\ result.multiplier > ONE

\* the series simulate(0.50, 3.0, 45) returns, in hundredths
ScenarioAFast == << 100, 115, 131, 149, 169, 190, 214, 238, 265, 294, 324, 356, 390 >>
ScenarioATraditional == << 100, 104, 108, 112, 116, 120, 124, 128, 131, 135, 139, 143, 146 >>
\* C14: simulate(0.20, 1.5, 30) has excessReturn = 0.10 and a positive
\* growthPerCycle; for every month 1..12 each recorded index is above 1.0
\* and below the corresponding index of simulate(0.50, 3.0, 45), and its
\* multiplier lies strictly between 1 and the multiplier of that scenario.
C14_ScenarioC ==
    LET ScenarioAMultiplier == 2662707
    IN
    /\ (IsScenarioA /\ pc = "done") =>
           /\ \A i \in 1..13 :
                 /\ result.data[i].portless = ScenarioAFast[i] * CENT
                 /\ result.data[i].traditional = ScenarioATraditional[i] * CENT
           /\ result.multiplier = ScenarioAMultiplier
    /\ (IsScenarioC /\ Started) =>
           /\ rawExcess = 100000
           /\ growthPerCycle > 0
           /\ \A i \in 2..Len(data) :
                 /\ data[i].traditional > ONE
                 /\ data[i].portless > ONE
                 /\ data[i].traditional < ScenarioATraditional[i] * CENT
                 /\ data[i].portless < ScenarioAFast[i] * CENT
           /\ pc = "done" => /\ Len(result.data) = 13
                             /\ result.multiplier > ONE
                             /\ result.multiplier < ScenarioAMultiplier

C14_Witness ==
    /\ IsScenarioC
    /\ pc = "done"
    /\ rawExcess = 100000
    /\ result.data[2].traditional > ONE
    /\ result.data[13].portless < ScenarioAFast[13] * CENT
    /\ result.multiplier > ONE

\* C15 as stated: the returned record has exactly the fields series and
\* multiplier, and every element of the series has exactly the fields
\* month, traditional and fast.
C15_FieldsAsStated ==
    pc = "done" =>
        /\ DOMAIN result = {"series", "multiplier"}
        /\ \A i \in 1..Len(result.data) :
               DOMAIN result.data[i] = {"month", "traditional", "fast"}

\* C15 amended: the returned record has exactly the fields data and
\* multiplier (the names App destructures), and every element of data has
\* exactly the fields month, portless and traditional.
C15_FieldsOfResult ==
    /\ Started => \A i \in 1..Len(data) :
                      DOMAIN data[i] = {"month", "portless", "traditional"}
    /\ pc = "done" =>
          /\ DOMAIN result = {"data", "multiplier"}
          /\ Len(result.data) = 13
          /\ \A i \in 1..Len(result.data) :
                 DOMAIN result.data[i] = {"month", "portless", "traditional"}

C15_Witness ==
    /\ pc = "done"
    /\ growthPerCycle > 0
    /\ Len(result.data) = 13
    /\ "portless" \in DOMAIN result.data[13]
    /\ "data" \in DOMAIN result

\* the per-month factor of "Ad efficiency decays 3.5% monthly", the model
\* assumption App shows to the user
STATED_DECAY == 965000

\* C16: the decay factor the compounding loop applies is the one App states
\* to the user, 0.965 per month: in the iteration for month k the factor is
\* 0.965^(k-1).
C16_DecayAsStated ==
    (pc \in {"loop", "done"} /\ iterations >= 1) =>
        d = PowS(STATED_DECAY, iterations - 1)

\* consecutive invocations that differ at most in roas, the later one with
\* the roas that is not smaller
RoasRaised ==
    /\ Started
    /\ HasPrev
    /\ prev.cm = cm
    /\ prev.netTermsDays = netTermsDays
    /\ prev.roas <= roas

MonthsDone == Len(data) - 1

TermsRaised ==
    /\ pc = "done"
    /\ HasPrev
    /\ prev.cm = cm
    /\ prev.roas = roas
    /\ prev.netTermsDays <= netTermsDays

SameTraditionalSeries ==
    \A i \in 1..13 :
        prev.result.data[i].traditional = result.data[i].traditional

----------------------------------------------------------------------------
(* Two invocations of simulate in flight at once, interleaved step by     *)
(* step.  Every const and let of simulate is declared inside the function *)
(* body, so each invocation works on the activation record it created.    *)

Invocations == 1..2

Args(c, r, n) == [cm |-> c, roas |-> r, netTermsDays |-> n]

PairArgs ==
    { Args(500000, 3000000, 45), Args(800000, 6000000, 90),
      Args(200000, 1500000, 30), Args(0, 1000000, 93) }

NoFrame ==
    [portlessMonthly |-> 0, traditionalMonthly |-> 0,
     m |-> 0, pIdx |-> 0, tIdx |-> 0, data |-> << >>]

\* variant: the locals live at module level, one record for all invocations
FrameOfShared(self) == 1

\* the activation record invocation self reads and writes
FrameOf(self) == self

InitPair ==
    /\ cm = 0
    /\ roas = 0
    /\ netTermsDays = 0
    /\ pc = "idle"
    /\ rawExcess = 0
    /\ growthPerCycle = 0
    /\ traditionalCycle = 0
    /\ portlessCycle = 0
    /\ portlessMonthly = 0
    /\ traditionalMonthly = 0
    /\ m = 0
    /\ d = 0
    /\ pIdx = 0
    /\ tIdx = 0
    /\ data = << >>
    /\ iterations = 0
    /\ result = NoResult
    /\ prev = NoPrev
    /\ \E a1 \in PairArgs, a2 \in PairArgs :
          calls = [pc |-> << "entry", "entry" >>,
                   args |-> << a1, a2 >>,
                   frame |-> << NoFrame, NoFrame >>,
                   ret |-> << NoResult, NoResult >>]

Idle ==
    UNCHANGED << cm, roas, netTermsDays, pc, rawExcess, growthPerCycle,
                 traditionalCycle, portlessCycle, portlessMonthly,
                 traditionalMonthly, m, d, pIdx, tIdx, data, iterations,
                 result, prev >>

\* lines 46-89 in invocation self
CallDerive(self) ==
    /\ calls.pc[self] = "entry"
    /\ LET a == calls.args[self]
           g == GrowthPerCycle(RawExcess(a.cm, a.roas))
           cyc == PortlessCycle(a.netTermsDays)
       IN  calls' = [calls EXCEPT
               !.pc[self] = "loop",
               !.frame[FrameOf(self)] =
                   [portlessMonthly |-> PortlessMonthly(g, cyc),
                    traditionalMonthly |-> TraditionalMonthly(g, TRADITIONAL_CYCLE),
                    m |-> 1, pIdx |-> SCALE, tIdx |-> SCALE,
                    data |-> InitialData]]
    /\ Idle

\* lines 91-102 in invocation self: one iteration of the loop
CallIterate(self) ==
    /\ calls.pc[self] = "loop"
    /\ LET fr == calls.frame[FrameOf(self)]
           dec == DecayAt(fr.m)
           p == Compound(fr.pIdx, fr.portlessMonthly, dec)
           t == Compound(fr.tIdx, fr.traditionalMonthly, dec)
       IN  /\ fr.m <= MONTHS
           /\ calls' = [calls EXCEPT
                  !.frame[FrameOf(self)] =
                      [fr EXCEPT !.pIdx = p, !.tIdx = t,
                                 !.data = Append(fr.data, Point(fr.m, p, t)),
                                 !.m = fr.m + 1]]
    /\ Idle

\* lines 91, 104-107 in invocation self
CallReturn(self) ==
    /\ calls.pc[self] = "loop"
    /\ LET fr == calls.frame[FrameOf(self)]
       IN  /\ ~(fr.m <= MONTHS)
           /\ calls' = [calls EXCEPT
                  !.pc[self] = "done",
                  !.ret[self] = [data |-> fr.data,
                                 multiplier |-> Multiplier(fr.pIdx, fr.tIdx)]]
    /\ Idle

NextPair ==
    \E self \in Invocations :
        CallDerive(self) \/ CallIterate(self) \/ CallReturn(self)

SpecPair == InitPair /\ [][NextPair]_vars

\* what simulate returns for the arguments a when it runs alone (the form
\* of the single invocation's result established by C2, C3 and C9)
SoloResult(a) ==
    LET g == GrowthPerCycle(RawExcess(a.cm, a.roas))
        fastRate == DivS(g, PortlessCycle(a.netTermsDays))
        tradRate == DivS(g, 3500000)
    IN  [data |-> [i \in 1..13 |->
                      [month |-> i - 1,
                       portless |-> round2(UnroundedIndex(fastRate, i - 1)),
                       traditional |-> round2(UnroundedIndex(tradRate, i - 1))]],
         multiplier |-> DivS(UnroundedIndex(fastRate, 12),
                             UnroundedIndex(tradRate, 12))]

\* C11: interleaved invocations are independent: each returns exactly what
\* it returns when run alone, whatever the other one is doing; while it
\* runs, its series is the beginning of that result; and two invocations
\* with identical arguments return identical results.
C11_Independent ==
    /\ \A self \in Invocations :
          LET solo == SoloResult(calls.args[self])
              own == calls.frame[self]
          IN  /\ calls.pc[self] = "done" => calls.ret[self] = solo
              /\ calls.pc[self] # "entry" =>
                     /\ Len(own.data) = own.m
                     /\ own.data = SubSeq(solo.data, 1, Len(own.data))
    /\ (calls.pc[1] = "done" /\ calls.pc[2] = "done"
           /\ calls.args[1] = calls.args[2]) => calls.ret[1] = calls.ret[2]

\* both invocations are in the middle of their loops, on different
\* arguments, each with its own partial series
C11_InFlight ==
    /\ calls.pc[1] = "loop"
    /\ calls.pc[2] = "loop"
    /\ calls.args[1] # calls.args[2]
    /\ calls.frame[1].m = 7
    /\ calls.frame[2].m = 4
    /\ calls.frame[1].data # calls.frame[2].data

====
